---- MODULE Spec2Model ----
(***************************************************************************)
(* A model of the image-analysis front end:                                *)
(*   src/services/geminiService.ts  reply interpretation (empty check,     *)
(*       trim, the two fence-stripping replaces, JSON.parse, the catch     *)
(*       that rethrows), fileToGenerativePart, extractTextFromImage;       *)
(*   src/App.tsx                    the App component's state and its      *)
(*       handlers handleImageChange, handleReset, handleAnalyze.           *)
(*                                                                         *)
(* Text is a sequence of lexemes.  The characters the code's regular       *)
(* expressions and trim() look at (backtick, j, s, o, n, newline, space)   *)
(* are one lexeme each; a JSON punctuation mark, a JSON string literal and *)
(* a JSON array literal are one lexeme each.                               *)
(***************************************************************************)
EXTENDS Naturals, Sequences, FiniteSets

VARIABLES
    \* App (src/App.tsx): the component's useState cells.
    appState, imageFile, prompt, analysisResult, textResult, error,
    \* handleAnalyze calls whose Promise.all has not settled, oldest first.
    calls,
    \* The Promise.all settlement handled by the last step, if any.
    settled,
    \* One call of analyzeImage or getPromptSuggestions on its own: which
    \* function ran, the reply the service gave, and what the caller got.
    fn, input, outcome

appVars == <<appState, imageFile, prompt, analysisResult, textResult, error, calls, settled>>
interpVars == <<fn, input, outcome>>
vars == <<appVars, interpVars>>

\* ------------------------------------------------------------------ bounds
\* Longest run of whitespace put around a reply.
MaxPad == 1
\* Most handleAnalyze calls whose Promise.all has not settled.
MaxInFlight == 2
\* Number of distinct image files the user can pick.
NumFiles == 2

\* ------------------------------------------------------------------ text
BT == "BACKTICK"
NL == "\n"
SP == " "
Whitespace == {SP, NL}

\* JSON lexemes.
LBrace == "{"
RBrace == "}"
Comma == ","
Colon == ":"
KTitle == "\"title\""
KSummary == "\"summary\""
KObjects == "\"detected_objects\""
KPalette == "\"color_palette\""
KSuggestions == "\"suggestions\""
KText == "\"text\""
VString == "\"hello\\nworld\""
VArray == "[]"
JsonKeys == {KTitle, KSummary, KObjects, KPalette, KSuggestions, KText}
JsonValues == {VString, VArray}

\* response.text when the service sends no text at all, and the reply of a
\* generateContent call that rejects (network, transport, authorization).
Undefined == <<"undefined">>
ServiceFailure == <<"rejected">>

\* Sequence helpers.
Drop(s, n) == SubSeq(s, n + 1, Len(s))
DropLast(s, n) == SubSeq(s, 1, Len(s) - n)
StartsWith(s, p) == Len(s) >= Len(p) /\ SubSeq(s, 1, Len(p)) = p
EndsWith(s, p) == Len(s) >= Len(p) /\ SubSeq(s, Len(s) - Len(p) + 1, Len(s)) = p

\* String.prototype.trim.
RECURSIVE TrimStart(_)
TrimStart(s) == IF s /= <<>> /\ Head(s) \in Whitespace THEN TrimStart(Tail(s)) ELSE s
RECURSIVE TrimEnd(_)
TrimEnd(s) ==
    IF s /= <<>> /\ s[Len(s)] \in Whitespace THEN TrimEnd(DropLast(s, 1)) ELSE s
Trim(s) == TrimEnd(TrimStart(s))

\* First replace of lines 105 and 153: an anchored prefix of three backticks
\* and the tag json, with one optional newline after it.
LeadPattern == <<BT, BT, BT, "j", "s", "o", "n">>
StripLeadingFence(s) ==
    IF StartsWith(s, LeadPattern)
    THEN IF StartsWith(s, LeadPattern \o <<NL>>)
         THEN Drop(s, Len(LeadPattern) + 1)
         ELSE Drop(s, Len(LeadPattern))
    ELSE s

\* Second replace of lines 105 and 153: an anchored suffix of three
\* backticks, with one optional newline before it.
TrailPattern == <<BT, BT, BT>>
StripTrailingFenceKeep(s) == s
StripTrailingFence(s) ==
    IF EndsWith(s, TrailPattern)
    THEN IF EndsWith(s, <<NL>> \o TrailPattern)
         THEN DropLast(s, Len(TrailPattern) + 1)
         ELSE DropLast(s, Len(TrailPattern))
    ELSE s

\* jsonString.replace(...).replace(...)
CleanJsonString(jsonString) == StripTrailingFence(StripLeadingFence(jsonString))

\* JSON.parse: whitespace between lexemes is skipped; the text is one value,
\* either a scalar/array literal or an object { key : value , ... } whose last
\* occurrence of a key wins.  Anything else is a SyntaxError.
NoMembers == [k \in {} |-> ""]
SyntaxError ==
    [ok |-> FALSE, kind |-> "SyntaxError", members |-> NoMembers, lex |-> "", text |-> <<>>]
SelectNonWs(s) == SelectSeq(s, LAMBDA c : c \notin Whitespace)
IsMemberList(t) ==
    \/ Len(t) = 0
    \/ /\ Len(t) % 4 = 3
       /\ \A i \in 1..Len(t) :
            /\ (i % 4 = 1 => t[i] \in JsonKeys)
            /\ (i % 4 = 2 => t[i] = Colon)
            /\ (i % 4 = 3 => t[i] \in JsonValues)
            /\ (i % 4 = 0 => t[i] = Comma)
MembersOf(t) ==
    LET keyAt == {i \in 1..Len(t) : i % 4 = 1}
        keys == {t[i] : i \in keyAt}
        last(k) == CHOOSE i \in keyAt : t[i] = k /\ \A j \in keyAt : t[j] = k => j <= i
    IN [k \in keys |-> t[last(k) + 2]]
JSONParse(s) ==
    LET t == SelectNonWs(s) IN
    IF Len(t) = 1 /\ t[1] \in JsonValues
    THEN [ok |-> TRUE, kind |-> "scalar", members |-> NoMembers, lex |-> t[1],
          text |-> <<>>]
    ELSE IF Len(t) >= 2 /\ t[1] = LBrace /\ t[Len(t)] = RBrace
              /\ IsMemberList(SubSeq(t, 2, Len(t) - 1))
    THEN [ok |-> TRUE, kind |-> "object",
          members |-> MembersOf(SubSeq(t, 2, Len(t) - 1)), lex |-> "", text |-> <<>>]
    ELSE SyntaxError

\* ------------------------------------------------- geminiService.ts replies
AnalyzeEmptyMsg == "Failed to analyze image. The AI returned an empty response."
AnalyzeCatchMsg ==
    "Failed to analyze image. The AI may not have been able to provide a structured response."
SuggestEmptyMsg ==
    "Failed to generate prompt suggestions. The AI returned an empty response."
SuggestCatchMsg == "Failed to generate prompt suggestions."
ExtractCatchMsg == "Failed to extract text from the image."

NoValue == [ok |-> FALSE, kind |-> "none", members |-> NoMembers, lex |-> "", text |-> <<>>]
Returned(v, p) == [threw |-> FALSE, message |-> "", value |-> v, parsed |-> p]
Threw(m, p) == [threw |-> TRUE, message |-> m, value |-> NoValue, parsed |-> p]

\* if (!rawText)
IsFalsy(rawText) == rawText = Undefined \/ rawText = <<>>

\* The try block from the resolved generateContent call on: the empty check,
\* trim, the two replaces, JSON.parse.  parsed records whether JSON.parse ran.
TryInterpret(reply, emptyMsg) ==
    IF reply = ServiceFailure THEN Threw("ServiceError", FALSE)
    ELSE IF IsFalsy(reply) THEN Threw(emptyMsg, FALSE)
    ELSE LET jsonString == Trim(reply)
             cleanedJsonString == CleanJsonString(jsonString)
             v == JSONParse(cleanedJsonString)
         IN IF v.ok THEN Returned(v, TRUE) ELSE Threw("SyntaxError", TRUE)

\* catch (error) { console.error(...); throw new Error(catchMsg); }
CatchRethrow(r, catchMsg) == IF r.threw THEN Threw(catchMsg, r.parsed) ELSE r

analyzeImage(reply) == CatchRethrow(TryInterpret(reply, AnalyzeEmptyMsg), AnalyzeCatchMsg)
getPromptSuggestions(reply) ==
    CatchRethrow(TryInterpret(reply, SuggestEmptyMsg), SuggestCatchMsg)

\* return { text: response.text ?? '' } inside the same try/catch shape.
extractTextFromImage(reply) ==
    CatchRethrow(
        IF reply = ServiceFailure THEN Threw("ServiceError", FALSE)
        ELSE Returned([ok |-> TRUE, kind |-> "text", members |-> NoMembers, lex |-> "",
                       text |-> IF reply = Undefined THEN <<>> ELSE reply], FALSE),
        ExtractCatchMsg)

\* required: [...] of analysisSchema and suggestionsSchema, the fields of
\* AnalysisResponse and PromptSuggestionsResponse.
RequiredFields(name) ==
    IF name = "analyzeImage" THEN {KTitle, KSummary, KObjects, KPalette}
    ELSE {KSuggestions}

\* ------------------------------------------------------ replies considered
\* Well-formed JSON texts.
FullAnalysis ==
    <<LBrace, KTitle, Colon, VString, Comma, KSummary, Colon, VString, Comma,
      KObjects, Colon, VArray, Comma, KPalette, Colon, VArray, RBrace>>
NoPaletteAnalysis ==
    <<LBrace, KTitle, Colon, VString, Comma, KSummary, Colon, VString, Comma,
      KObjects, Colon, VArray, RBrace>>
FullSuggestions == <<LBrace, KSuggestions, Colon, VArray, RBrace>>
TextObject == <<LBrace, KText, Colon, VString, RBrace>>
EmptyObject == <<LBrace, RBrace>>
WellFormed ==
    {FullAnalysis, NoPaletteAnalysis, FullSuggestions, TextObject, EmptyObject, <<VArray>>}
\* Texts JSON.parse rejects: nothing, a truncated object, prose.
Malformed == {<<>>, <<LBrace, KTitle, Colon>>, <<"n", "o">>}

RECURSIVE SeqsUpTo(_, _)
SeqsUpTo(S, n) ==
    IF n = 0 THEN {<<>>}
    ELSE LET shorter == SeqsUpTo(S, n - 1)
         IN shorter \cup {<<c>> \o t : c \in S, t \in {u \in shorter : Len(u) = n - 1}}
Pads == SeqsUpTo(Whitespace, MaxPad)

\* Leading fence markers: none, the json tag with and without its newline,
\* no tag, another tag.  Trailing fence markers: none, with and without the
\* newline before it.
JsonLeads == {<<>>, LeadPattern \o <<NL>>, LeadPattern}
OtherLeads == {<<BT, BT, BT, NL>>, <<BT, BT, BT, "j", "s", NL>>}
Leads == JsonLeads \cup OtherLeads
Trails == {<<>>, <<NL, BT, BT, BT>>, <<BT, BT, BT>>}

NoInput ==
    [shape |-> "none", outer |-> <<>>, lead |-> <<>>, payload |-> <<>>, trail |-> <<>>,
     after |-> <<>>]
Inputs ==
    [shape : {"text"}, outer : Pads, lead : Leads, payload : WellFormed \cup Malformed,
     trail : Trails, after : Pads]
      \cup {[NoInput EXCEPT !.shape = "undefined"], [NoInput EXCEPT !.shape = "rejected"]}

\* response.text of an input: whitespace, fence, payload, fence, whitespace.
ReplyText(in) ==
    CASE in.shape = "undefined" -> Undefined
      [] in.shape = "rejected" -> ServiceFailure
      [] OTHER -> in.outer \o in.lead \o in.payload \o in.trail \o in.after

\* ------------------------------------------------- one interpreter call
InterpInit ==
    /\ appState = "idle"
    /\ imageFile = 0
    /\ prompt = "Analyze this image"
    /\ analysisResult = [file |-> 0, value |-> NoValue]
    /\ textResult = [file |-> 0, value |-> NoValue]
    /\ error = ""
    /\ calls = <<>>
    /\ settled = [idx |-> 0, a |-> "none", e |-> "none"]
    /\ fn = "none"
    /\ input \in Inputs
    /\ outcome = Returned(NoValue, FALSE)

AnalyzeImageCall ==
    /\ fn = "none"
    /\ fn' = "analyzeImage"
    /\ outcome' = analyzeImage(ReplyText(input))
    /\ UNCHANGED <<input, appVars>>

GetPromptSuggestionsCall ==
    /\ fn = "none"
    /\ fn' = "getPromptSuggestions"
    /\ outcome' = getPromptSuggestions(ReplyText(input))
    /\ UNCHANGED <<input, appVars>>

\* ------------------------------------------------------------------ App
Files == 1..NumFiles
NoFile == 0
DefaultPrompt == "Analyze this image"
NoError == ""
NoResult == [file |-> NoFile, value |-> NoValue]
NoSettle == [idx |-> 0, a |-> "none", e |-> "none"]

\* What the service may answer to the analyze request and to the extract
\* request of a handleAnalyze call.
AnalyzeReplies ==
    {Undefined, ServiceFailure, LeadPattern \o <<NL>> \o FullAnalysis \o <<NL, BT, BT, BT>>}
ExtractReplies == {ServiceFailure, <<"h", "i">>}

Stage(st, value) == [st |-> st, value |-> value]
Status(stage) == IF stage.st = "fulfilled" THEN "fulfilled" ELSE "pending"
RemoveAt(s, i) == SubSeq(s, 1, i - 1) \o SubSeq(s, i + 1, Len(s))

AppInit ==
    /\ appState = "idle"
    /\ imageFile = NoFile
    /\ prompt = DefaultPrompt
    /\ analysisResult = NoResult
    /\ textResult = NoResult
    /\ error = NoError
    /\ calls = <<>>
    /\ settled = NoSettle

\* Uploader, the only caller, is rendered while no image is selected.
handleImageChange(file) ==
    /\ imageFile = NoFile
    /\ imageFile' = file
    /\ analysisResult' = NoResult
    /\ textResult' = NoResult
    /\ error' = NoError
    /\ prompt' = DefaultPrompt
    /\ appState' = "interactive"
    /\ settled' = NoSettle
    /\ UNCHANGED <<calls, interpVars>>

\* The New button is rendered while an image is selected.
handleReset ==
    /\ imageFile /= NoFile
    /\ imageFile' = NoFile
    /\ analysisResult' = NoResult
    /\ textResult' = NoResult
    /\ error' = NoError
    /\ appState' = "idle"
    /\ settled' = NoSettle
    /\ UNCHANGED <<prompt, calls, interpVars>>

\* handleAnalyze up to its await: the Analyze button is rendered while an image
\* is selected and disabled while appState is loading.  Both service functions
\* start by reading the file.
handleAnalyze ==
    /\ imageFile /= NoFile
    /\ appState /= "loading"
    /\ Len(calls) < MaxInFlight
    /\ error' = NoError
    /\ analysisResult' = NoResult
    /\ textResult' = NoResult
    /\ appState' = "loading"
    /\ calls' = Append(calls, [file |-> imageFile, prompt |-> prompt,
                               a |-> Stage("reading", NoValue),
                               e |-> Stage("reading", NoValue)])
    /\ settled' = NoSettle
    /\ UNCHANGED <<imageFile, prompt, interpVars>>

\* fileToGenerativePart: reader.onloadend with a string result resolves the
\* promise and the request goes out; without one nothing resolves it.
ReadLoaded(i, which) ==
    /\ i \in 1..Len(calls)
    /\ calls[i][which].st = "reading"
    /\ calls' = [calls EXCEPT ![i][which] = Stage("requesting", NoValue)]
    /\ settled' = NoSettle
    /\ UNCHANGED <<appState, imageFile, prompt, analysisResult, textResult, error, interpVars>>

ReadWithoutResult(i, which) ==
    /\ i \in 1..Len(calls)
    /\ calls[i][which].st = "reading"
    /\ calls' = [calls EXCEPT ![i][which] = Stage("stuck", NoValue)]
    /\ settled' = NoSettle
    /\ UNCHANGED <<appState, imageFile, prompt, analysisResult, textResult, error, interpVars>>

\* setError(err.message || 'An unknown error occurred.')
CatchBlock(message) ==
    error' = IF message /= "" THEN message ELSE "An unknown error occurred."

\* finally { setAppState('interactive') }
FinallyBlockUnlessNewer == appState' = IF Len(calls) > 1 THEN appState ELSE "interactive"
FinallyBlock == appState' = "interactive"

\* Promise.all rejects with the first rejection: catch, then finally.
JoinRejectedPartial(i, which, message) ==
    /\ CatchBlock(message)
    /\ analysisResult' = IF calls[i].a.st = "fulfilled"
                         THEN [file |-> calls[i].file, value |-> calls[i].a.value]
                         ELSE analysisResult
    /\ textResult' = IF calls[i].e.st = "fulfilled"
                     THEN [file |-> calls[i].file, value |-> calls[i].e.value]
                     ELSE textResult
    /\ FinallyBlock
    /\ calls' = RemoveAt(calls, i)
    /\ settled' = [idx |-> i,
                   a |-> IF which = "a" THEN "rejected" ELSE Status(calls[i].a),
                   e |-> IF which = "e" THEN "rejected" ELSE Status(calls[i].e)]
JoinRejected(i, which, message) ==
    /\ CatchBlock(message)
    /\ UNCHANGED <<analysisResult, textResult>>
    /\ FinallyBlock
    /\ calls' = RemoveAt(calls, i)
    /\ settled' = [idx |-> i,
                   a |-> IF which = "a" THEN "rejected" ELSE Status(calls[i].a),
                   e |-> IF which = "e" THEN "rejected" ELSE Status(calls[i].e)]

\* Promise.all fulfils once both have: the two setters, then finally.
JoinFulfilled(i, analysis, text) ==
    /\ analysisResult' = [file |-> calls[i].file, value |-> analysis]
    /\ textResult' = [file |-> calls[i].file, value |-> text]
    /\ UNCHANGED error
    /\ FinallyBlock
    /\ calls' = RemoveAt(calls, i)
    /\ settled' = [idx |-> i, a |-> "fulfilled", e |-> "fulfilled"]

\* One sub-call of call i fulfilled while the other has not: the await goes on.
StillAwaiting(i, which, value) ==
    /\ calls' = [calls EXCEPT ![i][which] = Stage("fulfilled", value)]
    /\ settled' = NoSettle
    /\ UNCHANGED <<appState, analysisResult, textResult, error>>

\* generateContent of analyzeImage answers (or rejects) for call i.
AnalyzeReplied(i, reply) ==
    /\ i \in 1..Len(calls)
    /\ calls[i].a.st = "requesting"
    /\ LET r == analyzeImage(reply) IN
         IF r.threw THEN JoinRejected(i, "a", r.message)
         ELSE IF calls[i].e.st = "fulfilled"
         THEN JoinFulfilled(i, r.value, calls[i].e.value)
         ELSE StillAwaiting(i, "a", r.value)
    /\ UNCHANGED <<imageFile, prompt, interpVars>>

\* generateContent of extractTextFromImage answers (or rejects) for call i.
ExtractReplied(i, reply) ==
    /\ i \in 1..Len(calls)
    /\ calls[i].e.st = "requesting"
    /\ LET r == extractTextFromImage(reply) IN
         IF r.threw THEN JoinRejected(i, "e", r.message)
         ELSE IF calls[i].a.st = "fulfilled"
         THEN JoinFulfilled(i, calls[i].a.value, r.value)
         ELSE StillAwaiting(i, "e", r.value)
    /\ UNCHANGED <<imageFile, prompt, interpVars>>

\* ------------------------------------------------------- specifications
Init == AppInit /\ fn = "none" /\ input = NoInput /\ outcome = Returned(NoValue, FALSE)

UserStep ==
    \/ \E file \in Files : handleImageChange(file)
    \/ handleReset
    \/ handleAnalyze

ReaderStep ==
    \/ \E i \in 1..MaxInFlight, which \in {"a", "e"} : ReadLoaded(i, which)
    \/ \E i \in 1..MaxInFlight, which \in {"a", "e"} : ReadWithoutResult(i, which)

ServiceStep ==
    \/ \E i \in 1..MaxInFlight, reply \in AnalyzeReplies : AnalyzeReplied(i, reply)
    \/ \E i \in 1..MaxInFlight, reply \in ExtractReplies : ExtractReplied(i, reply)

Next == UserStep \/ ReaderStep \/ ServiceStep

Spec == Init /\ [][Next]_vars

\* The browser delivers every reader event and the service answers or fails
\* every request; the user is free to do nothing.
FairSpec == Spec /\ WF_vars(ReaderStep) /\ WF_vars(ServiceStep)

InterpNext == AnalyzeImageCall \/ GetPromptSuggestionsCall

InterpSpec == InterpInit /\ [][InterpNext]_vars

\* ------------------------------------------------------------- properties
\* A step in which the Promise.all of a handleAnalyze call settles.
JoinSettles == Len(calls') < Len(calls)

\* C1: when the Promise.all of a handleAnalyze call settles with analyzeImage
\* or extractTextFromImage rejected, whichever it is and whether or not the other
\* had already fulfilled, that step sets a non-null error and leaves
\* analysisResult and textResult as they were.
C1_AllOrNothingJoin ==
    [][(JoinSettles /\ "rejected" \in {settled'.a, settled'.e})
         => /\ error' /= NoError
            /\ analysisResult' = analysisResult
            /\ textResult' = textResult]_vars

\* C1 witness: analyzeImage rejected after extractTextFromImage had fulfilled,
\* the error is shown and no result is.
C1_Witness ==
    /\ settled.a = "rejected"
    /\ settled.e = "fulfilled"
    /\ error = AnalyzeCatchMsg
    /\ analysisResult = NoResult
    /\ textResult = NoResult

AnyStuck ==
    \E i \in 1..Len(calls) : calls[i].a.st = "stuck" \/ calls[i].e.st = "stuck"

\* C2: whenever appState is loading it is eventually interactive, given that
\* every reader event is delivered and every request is answered or fails.
C2_LoadingLeadsToInteractive == (appState = "loading") ~> (appState = "interactive")

\* C3: in every reachable state a non-null analysisResult or textResult was
\* computed from the currently selected image file.
C3_ResultsFromCurrentImage ==
    /\ analysisResult /= NoResult => analysisResult.file = imageFile
    /\ textResult /= NoResult => textResult.file = imageFile

EmptyMsgOf(name) == IF name = "analyzeImage" THEN AnalyzeEmptyMsg ELSE SuggestEmptyMsg
CatchMsgOf(name) == IF name = "analyzeImage" THEN AnalyzeCatchMsg ELSE SuggestCatchMsg

\* C4: for an undefined or empty reply, analyzeImage and getPromptSuggestions
\* throw without calling JSON.parse, and the caller gets the empty-response
\* error, not the one it gets for a malformed reply or a failed request.
C4_EmptyReplyIdentifiable ==
    (fn /= "none" /\ IsFalsy(ReplyText(input)))
        => /\ outcome.threw
           /\ ~outcome.parsed
           /\ outcome.message = EmptyMsgOf(fn)
           /\ outcome.message /= CatchMsgOf(fn)

\* C5: for a reply that is a well-formed JSON object (bare or in a json fence) without
\* one of the required fields of the function's result, the function throws.
C5_MissingFieldRejected ==
    (/\ fn /= "none"
     /\ input.shape = "text"
     /\ input.lead \in JsonLeads
     /\ input.payload \in WellFormed
     /\ JSONParse(input.payload).kind = "object"
     /\ ~(RequiredFields(fn) \subseteq DOMAIN JSONParse(input.payload).members))
        => outcome.threw

\* The wrappings C6 speaks of: a leading line of three backticks with no tag,
\* the json tag or another tag, and a trailing newline and three backticks.
ClaimLeads == {<<>>, <<BT, BT, BT, NL>>, LeadPattern \o <<NL>>, <<BT, BT, BT, "j", "s", NL>>}
ClaimTrails == {<<>>, <<NL, BT, BT, BT>>}
LosslessOn(leads, trails) ==
    (/\ fn /= "none"
     /\ input.shape = "text"
     /\ input.payload \in WellFormed
     /\ input.lead \in leads
     /\ input.trail \in trails)
        => /\ outcome = Returned(JSONParse(input.payload), TRUE)
           /\ CleanJsonString(input.payload) = input.payload

C7_ReadFailureSurfaces == AnyStuck ~> (error /= NoError)

\* C8: every step in which a call's Promise.all settles sets appState to
\* interactive, whichever call it is.
C8_SettleAlwaysInteractive == [][JoinSettles => appState' = "interactive"]_vars

\* C8 witness: the oldest call has just settled and set appState to
\* interactive while a newer call, made for the image now selected, still has
\* both requests out.
C8_Witness ==
    /\ settled.idx = 1
    /\ appState = "interactive"
    /\ Len(calls) >= 1
    /\ calls[1].file = imageFile
    /\ calls[1].a.st = "requesting"
    /\ calls[1].e.st = "requesting"

\* C9: in every reachable state a non-null error comes with null
\* analysisResult and textResult.
C9_ErrorExcludesResults ==
    error /= NoError => (analysisResult = NoResult /\ textResult = NoResult)

\* C10: in every reachable state appState is idle exactly when no image is
\* selected.
C10_IdleIffNoImage == (appState = "idle") <=> (imageFile = NoFile)

====
